---- MODULE Spec2Model ----
(***************************************************************************)
(* Model of src/logger.rs of the oslog crate: the configuration builder    *)
(* (Config), the dispatcher (OsLogger, an implementation of log::Log), the *)
(* process-wide holder IOS_LOGGER and init_once.                           *)
(*                                                                         *)
(* The log facade (crate `log`) and the native sink (crate::OsLog) are     *)
(* collaborators; only what logger.rs uses of them is modelled: the        *)
(* facade's registered logger (log::set_logger / log::logger), its global  *)
(* maximum level (log::max_level / log::set_max_level), the level check of *)
(* the log::debug! macro, and OsLog::new / OsLog::with_level as recorded   *)
(* events.                                                                 *)
(***************************************************************************)
EXTENDS Integers, Sequences, FiniteSets, TLC

(***************************************************************************)
(* Bounds of the model.                                                    *)
(***************************************************************************)
NumThreads == 2
MaxCalls == 2
MaxBuilderCalls == 4

Threads == 1..NumThreads

(***************************************************************************)
(* Severity levels.  log::Level is Error = 1 .. Trace = 5 and              *)
(* log::LevelFilter is Off = 0, Error = 1 .. Trace = 5; logger.rs line 64  *)
(* compares a Level with a LevelFilter through these numbers.              *)
(***************************************************************************)
Levels == {"Error", "Warn", "Info", "Debug", "Trace"}
LevelFilters == Levels \cup {"Off"}

LevelAsUsize(level) ==
    CASE level = "Error" -> 1
      [] level = "Warn"  -> 2
      [] level = "Info"  -> 3
      [] level = "Debug" -> 4
      [] level = "Trace" -> 5

FilterAsUsize(filter) ==
    IF filter = "Off" THEN 0 ELSE LevelAsUsize(filter)

\* Option::None; Some(x) is written x.
None == "None"

(***************************************************************************)
(* Categories (record targets).  ModulePath is module_path!() of           *)
(* logger.rs, the target of the log::debug! record of init_once.           *)
(***************************************************************************)
ModulePath == "oslog::logger"
Categories == {"Settings", "Database", ModulePath}

NoEntry == [absent |-> TRUE]

(***************************************************************************)
(* OsLog::new(subsystem, category): a new sink handle.  `origin` and `n`   *)
(* give the handle its identity: the n-th handle made for this category    *)
(* by the given origin (<<t, n>> for the configuration of thread t's n-th   *)
(* init_once call, LogOrigin for OsLogger::log).                           *)
(***************************************************************************)
OsLog_new(subsystem, category, origin, n) ==
    [subsystem |-> subsystem, category |-> category, origin |-> origin, n |-> n]

(***************************************************************************)
(* Config (lines 5-33).  `made` counts the OsLog::new calls the builder    *)
(* made per category: the side effect of building.                         *)
(***************************************************************************)
Config_default(origin) ==
    [subsystem |-> "",
     log_level |-> None,
     loggers   |-> [c \in Categories |-> NoEntry],
     origin    |-> origin,
     made      |-> [c \in Categories |-> 0]]

with_subsystem(self, subsystem) ==
    [self EXCEPT !.subsystem = subsystem]

with_max_level(self, level) ==
    [self EXCEPT !.log_level = level]

\* As with_category_level_filter, without the and_modify: a category that is
\* present keeps its level.
with_category_level_filter_stale(self, category, level) ==
    LET n == self.made[category] + 1
        fresh == OsLog_new(self.subsystem, category, self.origin, n)
        old == self.loggers[category]
    IN [self EXCEPT
          !.made[category] = n,
          !.loggers[category] =
              IF old = NoEntry
                THEN [level |-> level, oslog |-> fresh]
                ELSE old]

\* DashMap::entry(k).and_modify(f).or_insert(v): v is an argument, so it is
\* evaluated (OsLog::new is called) whether or not the key is present; when
\* the key is present only the level is updated and v is dropped.
with_category_level_filter(self, category, level) ==
    LET n == self.made[category] + 1
        fresh == OsLog_new(self.subsystem, category, self.origin, n)
        old == self.loggers[category]
    IN [self EXCEPT
          !.made[category] = n,
          !.loggers[category] =
              IF old = NoEntry
                THEN [level |-> level, oslog |-> fresh]
                ELSE [old EXCEPT !.level = level]]


(***************************************************************************)
(* The configurations the callers of init_once pass.  1 is the one of      *)
(* tests::test_basic_usage (lines 100-107); 2 differs from it in every     *)
(* field; 3 is Config::default().                                          *)
(***************************************************************************)
ConfigIds == {1, 2, 3}

BuildConfig(k, origin) ==
    CASE k = 1 ->
           with_category_level_filter(
             with_category_level_filter(
               with_category_level_filter(
                 with_max_level(
                   with_subsystem(Config_default(origin), "com.example.oslog"),
                   "Trace"),
                 "Settings", "Warn"),
               "Database", "Error"),
             "Database", "Trace")
      [] k = 2 ->
           with_category_level_filter(
             with_category_level_filter(
               with_category_level_filter(
                 with_max_level(
                   with_subsystem(Config_default(origin), "org.example.other"),
                   "Warn"),
                 "Settings", "Off"),
               "Database", "Error"),
             ModulePath, "Info")
      [] k = 3 -> Config_default(origin)

(***************************************************************************)
(* State.                                                                  *)
(***************************************************************************)
VARIABLES
    IOS_LOGGER,            \* the holder (line 53): NoLogger, or the OsLogger
    LOGGER,                \* the facade's registered logger: "none", "oslog", "other"
    MAX_LOG_LEVEL_FILTER,  \* the facade's global maximum level (log::max_level())
    shardLock,             \* DashMap: the thread holding each shard's write lock
    oslog_new,             \* OsLog::new calls made by OsLogger::log, per category
    emitted,               \* OsLog::with_level calls, in order
    otherSink,             \* records the facade delivered to another logger
    pc,                    \* each thread's position
    op,                    \* the call each thread is in
    config,                \* the Config each thread builds / passed to init_once
    log_level,             \* init_once's local `log_level` (line 84)
    logger,                \* init_once's local `logger` (line 85): which OsLogger
    max_level_applied,     \* whether init_once has called log::set_max_level
    init_configs,          \* the configurations passed to init_once, in call order
    record,                \* the Record a thread's log call carries
    returned,              \* what a thread's last call returned
    calls,                 \* number of calls each thread has made
    building,              \* a Config under construction by the builder
    history                \* the builder calls made on `building`, in order

vars == <<IOS_LOGGER, LOGGER, MAX_LOG_LEVEL_FILTER, shardLock,
          oslog_new, emitted, otherSink, pc, op, config, log_level, record,
          returned, calls, building, history, logger, max_level_applied,
          init_configs>>

facadeVars == <<LOGGER, MAX_LOG_LEVEL_FILTER>>
sinkVars == <<oslog_new, emitted, otherSink>>
builderVars == <<building, history>>

NoLogger == [uninitialized |-> TRUE]
NoThread == 0

Live == IOS_LOGGER # NoLogger
NoRecord == [target |-> "", level |-> None, args |-> <<0, 0>>]
NoReturn == [op |-> "none", target |-> "", level |-> None, result |-> FALSE]

\* DashMap keeps its keys in shards, each behind one lock; the hash decides
\* the shard.  Here two of the categories share a shard.
Shards == {1, 2}
ShardOf(category) == IF category = "Settings" THEN 1 ELSE 2

\* Runtime handles (made by OsLogger::log) have this origin.
LogOrigin == <<0, 0>>

(***************************************************************************)
(* OsLogger::enabled (lines 56-65) on the live logger:                     *)
(*   loggers.get(target).and_then(|pair| pair.0)                           *)
(*          .unwrap_or_else(log::max_level)                                *)
(*   metadata.level() <= max_level                                         *)
(***************************************************************************)
\* self.config().loggers of the live logger: the registry.
loggers == IOS_LOGGER.config.loggers

\* As effective_max_level, but an override of Off counts as no override.
effective_max_level_off_as_absent(target) ==
    IF loggers[target] # NoEntry /\ loggers[target].level \notin {None, "Off"}
      THEN loggers[target].level
      ELSE MAX_LOG_LEVEL_FILTER

effective_max_level(target) ==
    IF loggers[target] # NoEntry /\ loggers[target].level # None
      THEN loggers[target].level
      ELSE MAX_LOG_LEVEL_FILTER

\* As enabled, with < for <=.
enabled_exclusive(target, level) ==
    LevelAsUsize(level) < FilterAsUsize(effective_max_level(target))

enabled(target, level) ==
    LevelAsUsize(level) <= FilterAsUsize(effective_max_level(target))

\* The level check of the facade's log! macro: lvl <= log::max_level().
macro_enabled(level) ==
    LevelAsUsize(level) <= FilterAsUsize(MAX_LOG_LEVEL_FILTER)



(***************************************************************************)
(* OsLogger::new (lines 42-46) and IOS_LOGGER.get_or_init (line 85): the   *)
(* closure runs, and the holder is written, only when the holder is empty. *)
(***************************************************************************)
OsLogger_new(cfg) == [config |-> cfg]

\* As get_or_init, but a later call replaces the OsLogger.
get_or_init_overwriting(holder, cfg) == OsLogger_new(cfg)

\* As get_or_init, but a later call writes its overrides into the registry.
get_or_init_merging(holder, cfg) ==
    IF holder = NoLogger
      THEN OsLogger_new(cfg)
      ELSE [holder EXCEPT !.config.loggers =
              [c \in Categories |->
                  IF cfg.loggers[c] # NoEntry THEN cfg.loggers[c] ELSE @[c]]]

get_or_init(holder, cfg) ==
    IF holder = NoLogger THEN OsLogger_new(cfg) ELSE holder

\* Back to the caller.
Return(t, value) ==
    /\ pc' = [pc EXCEPT ![t] = "idle"]
    /\ op' = [op EXCEPT ![t] = "idle"]
    /\ record' = [record EXCEPT ![t] = NoRecord]
    /\ returned' = [returned EXCEPT ![t] = value]

(***************************************************************************)
(* init_once (lines 83-91), one action per statement.                      *)
(***************************************************************************)
\* lines 84-85: let log_level = config.log_level; IOS_LOGGER.get_or_init(..)
init_once(t, k) ==
    /\ pc[t] = "idle"
    /\ calls[t] < MaxCalls
    /\ LET cfg == BuildConfig(k, <<t, calls[t] + 1>>)
       IN /\ config' = [config EXCEPT ![t] = cfg]
          /\ log_level' = [log_level EXCEPT ![t] = cfg.log_level]
          /\ IOS_LOGGER' = get_or_init(IOS_LOGGER, cfg)
    /\ logger' = [logger EXCEPT ![t] = IOS_LOGGER'.config.origin]
    /\ calls' = [calls EXCEPT ![t] = @ + 1]
    /\ pc' = [pc EXCEPT ![t] = "set_logger"]
    /\ op' = [op EXCEPT ![t] = "init_once"]
    /\ init_configs' = Append(init_configs, k)
    /\ UNCHANGED <<facadeVars, sinkVars, shardLock, record, returned,
                   builderVars, max_level_applied>>

InitReturn(t, registered) ==
    [op |-> "init_once", target |-> "", level |-> log_level[t], result |-> registered]

\* As set_logger, but the configured level is applied also when the
\* registration failed.
set_logger_applying(t) ==
    /\ pc[t] = "set_logger"
    /\ LOGGER' = IF LOGGER = "none" THEN "oslog" ELSE LOGGER
    /\ IF log_level[t] # None
         THEN /\ pc' = [pc EXCEPT ![t] = "set_max_level"]
              /\ UNCHANGED <<op, record, returned>>
         ELSE Return(t, [op |-> "init_once", target |-> "",
                         level |-> log_level[t], result |-> LOGGER = "none"])
    /\ UNCHANGED <<IOS_LOGGER, MAX_LOG_LEVEL_FILTER, sinkVars, shardLock,
                   config, log_level, calls, builderVars, logger,
                   max_level_applied, init_configs>>

\* line 86: log::set_logger(logger) succeeds only while no logger is registered.
set_logger(t) ==
    /\ pc[t] = "set_logger"
    /\ IF LOGGER = "none"
         THEN /\ LOGGER' = "oslog"
              /\ IF log_level[t] # None
                   THEN /\ pc' = [pc EXCEPT ![t] = "set_max_level"]
                        /\ UNCHANGED <<op, record, returned>>
                   ELSE Return(t, InitReturn(t, TRUE))
         ELSE /\ pc' = [pc EXCEPT ![t] = "debug"]
              /\ UNCHANGED <<LOGGER, op, record, returned>>
    /\ UNCHANGED <<IOS_LOGGER, MAX_LOG_LEVEL_FILTER, sinkVars, shardLock,
                   config, log_level, calls, builderVars, logger,
                   max_level_applied, init_configs>>

\* lines 88-89: log::set_max_level(level)
set_max_level(t) ==
    /\ pc[t] = "set_max_level"
    /\ MAX_LOG_LEVEL_FILTER' = log_level[t]
    /\ max_level_applied' = TRUE
    /\ Return(t, InitReturn(t, TRUE))
    /\ UNCHANGED <<IOS_LOGGER, LOGGER, sinkVars, shardLock, config, log_level,
                   calls, builderVars, logger, init_configs>>

\* line 87: log::debug!(..): the macro checks Debug <= log::max_level() and
\* hands the record, whose target is module_path!(), to log::logger().
debug(t) ==
    /\ pc[t] = "debug"
    /\ IF ~macro_enabled("Debug")
         THEN /\ Return(t, InitReturn(t, FALSE))
              /\ UNCHANGED otherSink
         ELSE IF LOGGER = "oslog"
           THEN /\ record' = [record EXCEPT ![t] =
                      [target |-> ModulePath, level |-> "Debug",
                       args |-> <<t, calls[t]>>]]
                /\ pc' = [pc EXCEPT ![t] = "log_enabled"]
                /\ UNCHANGED <<op, returned, otherSink>>
           ELSE /\ otherSink' = otherSink + 1
                /\ Return(t, InitReturn(t, FALSE))
    /\ UNCHANGED <<IOS_LOGGER, facadeVars, oslog_new, emitted, shardLock,
                   config, log_level, calls, builderVars, logger,
                   max_level_applied, init_configs>>


(***************************************************************************)
(* OsLogger::enabled (lines 56-65) called through log::logger().  The      *)
(* lookup is DashMap::get: it waits for the shard's lock and inserts       *)
(* nothing.                                                                *)
(***************************************************************************)
EnabledReturn(c, s) ==
    [op |-> "enabled", target |-> c, level |-> s, result |-> enabled(c, s)]

\* As Enabled, but looking the category up with entry().or_insert(..).
Enabled_inserting(t, c, s) ==
    /\ pc[t] = "idle"
    /\ calls[t] < MaxCalls
    /\ LOGGER = "oslog"
    /\ shardLock[ShardOf(c)] = NoThread
    /\ calls' = [calls EXCEPT ![t] = @ + 1]
    /\ Return(t, EnabledReturn(c, s))
    /\ IOS_LOGGER' =
         IF loggers[c] = NoEntry
           THEN [IOS_LOGGER EXCEPT !.config.loggers[c] =
                   [level |-> None,
                    oslog |-> OsLog_new(IOS_LOGGER.config.subsystem, c,
                                        LogOrigin, oslog_new[c] + 1)]]
           ELSE IOS_LOGGER
    /\ UNCHANGED <<facadeVars, sinkVars, shardLock, config, log_level,
                   builderVars, logger,
                   max_level_applied, init_configs>>

Enabled(t, c, s) ==
    /\ pc[t] = "idle"
    /\ calls[t] < MaxCalls
    /\ LOGGER = "oslog"
    /\ shardLock[ShardOf(c)] = NoThread
    /\ calls' = [calls EXCEPT ![t] = @ + 1]
    /\ Return(t, EnabledReturn(c, s))
    /\ UNCHANGED <<IOS_LOGGER, facadeVars, sinkVars, shardLock, config,
                   log_level, builderVars, logger,
                   max_level_applied, init_configs>>

(***************************************************************************)
(* OsLogger::log (lines 67-78) called through log::logger(), one action    *)
(* per step that other threads can observe.                                *)
(***************************************************************************)
Log(t, c, s) ==
    /\ pc[t] = "idle"
    /\ calls[t] < MaxCalls
    /\ LOGGER = "oslog"
    /\ calls' = [calls EXCEPT ![t] = @ + 1]
    /\ record' = [record EXCEPT ![t] =
                    [target |-> c, level |-> s, args |-> <<t, calls[t] + 1>>]]
    /\ pc' = [pc EXCEPT ![t] = "log_enabled"]
    /\ op' = [op EXCEPT ![t] = "log"]
    /\ UNCHANGED <<IOS_LOGGER, facadeVars, sinkVars, shardLock, config,
                   log_level, returned, builderVars, logger,
                   max_level_applied, init_configs>>

LogReturn(t, emit) ==
    [op |-> op[t], target |-> record[t].target, level |-> record[t].level,
     result |-> emit]

\* As log_enabled, without the check: every record goes on to the registry.
log_enabled_unchecked(t) ==
    /\ pc[t] = "log_enabled"
    /\ shardLock[ShardOf(record[t].target)] = NoThread
    /\ pc' = [pc EXCEPT ![t] = "log_entry"]
    /\ UNCHANGED <<op, record, returned>>
    /\ UNCHANGED <<IOS_LOGGER, facadeVars, sinkVars, shardLock, config,
                   log_level, calls, builderVars, logger,
                   max_level_applied, init_configs>>

\* line 68: if self.enabled(record.metadata())
log_enabled(t) ==
    /\ pc[t] = "log_enabled"
    /\ shardLock[ShardOf(record[t].target)] = NoThread
    /\ IF enabled(record[t].target, record[t].level)
         THEN /\ pc' = [pc EXCEPT ![t] = "log_entry"]
              /\ UNCHANGED <<op, record, returned>>
         ELSE Return(t, LogReturn(t, FALSE))
    /\ UNCHANGED <<IOS_LOGGER, facadeVars, sinkVars, shardLock, config,
                   log_level, calls, builderVars, logger,
                   max_level_applied, init_configs>>

\* lines 69-73: loggers.entry(target).or_insert((None, OsLog::new(..))).
\* entry() takes the shard's write lock; the argument of or_insert is
\* evaluated next, so OsLog::new is called on every log; or_insert stores
\* the new pair only when the key is absent.  The returned reference `pair`
\* keeps the lock.
\* As or_insert, but storing the value also when the key is present.
or_insert_replacing(map, key, value) ==
    [map EXCEPT ![key] = value]

\* As or_insert, but a present key takes the level of the value.
or_insert_resetting(map, key, value) ==
    IF map[key] = NoEntry
      THEN [map EXCEPT ![key] = value]
      ELSE [map EXCEPT ![key].level = value.level]

or_insert(map, key, value) ==
    IF map[key] = NoEntry THEN [map EXCEPT ![key] = value] ELSE map

log_entry(t) ==
    /\ pc[t] = "log_entry"
    /\ LET c == record[t].target
           n == oslog_new[c] + 1
           fresh == OsLog_new(IOS_LOGGER.config.subsystem, c, LogOrigin, n)
       IN /\ shardLock[ShardOf(c)] = NoThread
          /\ shardLock' = [shardLock EXCEPT ![ShardOf(c)] = t]
          /\ oslog_new' = [oslog_new EXCEPT ![c] = n]
          /\ IOS_LOGGER' = [IOS_LOGGER EXCEPT !.config.loggers =
                              or_insert(@, c, [level |-> None, oslog |-> fresh])]
    /\ pc' = [pc EXCEPT ![t] = "log_emit"]
    /\ UNCHANGED <<facadeVars, emitted, otherSink, op, config, log_level,
                   record, returned, calls, builderVars, logger,
                   max_level_applied, init_configs>>

\* As log_emit, but emitting through the handle this call created rather
\* than the one the entry holds.
log_emit_fresh(t) ==
    /\ pc[t] = "log_emit"
    /\ LET c == record[t].target
       IN /\ emitted' = Append(emitted,
                           [oslog |-> OsLog_new(IOS_LOGGER.config.subsystem, c,
                                                LogOrigin, oslog_new[c]),
                            level |-> record[t].level,
                            message |-> record[t].args])
          /\ shardLock' = [shardLock EXCEPT ![ShardOf(c)] = NoThread]
    /\ Return(t, [op |-> op[t], target |-> record[t].target,
                  level |-> record[t].level, result |-> TRUE])
    /\ UNCHANGED <<IOS_LOGGER, facadeVars, oslog_new, otherSink, config,
                   log_level, calls, builderVars, logger,
                   max_level_applied, init_configs>>

\* As log_emit, but `pair` is kept: the shard's lock is not released.
log_emit_holding(t) ==
    /\ pc[t] = "log_emit"
    /\ LET c == record[t].target
       IN emitted' = Append(emitted,
                            [oslog |-> loggers[c].oslog,
                             level |-> record[t].level,
                             message |-> record[t].args])
    /\ Return(t, [op |-> op[t], target |-> record[t].target,
                  level |-> record[t].level, result |-> TRUE])
    /\ UNCHANGED <<IOS_LOGGER, facadeVars, oslog_new, otherSink, shardLock,
                   config, log_level, calls, builderVars, logger,
                   max_level_applied, init_configs>>

\* lines 75-77: format the message, pair.1.with_level(level, &message), and
\* drop `pair`, which releases the shard's lock.
log_emit(t) ==
    /\ pc[t] = "log_emit"
    /\ LET c == record[t].target
       IN /\ emitted' = Append(emitted,
                           [oslog |-> loggers[c].oslog,
                            level |-> record[t].level,
                            message |-> record[t].args])
          /\ shardLock' = [shardLock EXCEPT ![ShardOf(c)] = NoThread]
    /\ Return(t, LogReturn(t, TRUE))
    /\ UNCHANGED <<IOS_LOGGER, facadeVars, oslog_new, otherSink, config,
                   log_level, calls, builderVars, logger,
                   max_level_applied, init_configs>>

(***************************************************************************)
(* Another component of the process registers its own logger with the     *)
(* facade (log::set_logger) and sets the facade's maximum level.           *)
(***************************************************************************)
OtherSetLogger(level) ==
    /\ LOGGER = "none"
    /\ LOGGER' = "other"
    /\ MAX_LOG_LEVEL_FILTER' = level
    /\ UNCHANGED <<IOS_LOGGER, sinkVars, shardLock, pc, op, config, log_level,
                   record, returned, calls, builderVars, logger,
                   max_level_applied, init_configs>>

(***************************************************************************)
(* The builder calls (lines 13-32) on a Config under construction.         *)
(***************************************************************************)
BuilderLevels == {"Off", "Warn", "Trace"}
BuilderCategories == {"Settings", "Database"}
BuilderSubsystems == {"com.example.oslog", "org.example.other"}
BuilderOrigin == <<0, 1>>

Build_with_subsystem(subsystem) ==
    /\ Len(history) < MaxBuilderCalls
    /\ building' = with_subsystem(building, subsystem)
    /\ history' = Append(history,
                    [call |-> "with_subsystem", category |-> "", arg |-> subsystem])
    /\ UNCHANGED <<IOS_LOGGER, facadeVars, sinkVars, shardLock, pc, op, config,
                   log_level, record, returned, calls, logger,
                   max_level_applied, init_configs>>

Build_with_max_level(level) ==
    /\ Len(history) < MaxBuilderCalls
    /\ building' = with_max_level(building, level)
    /\ history' = Append(history,
                    [call |-> "with_max_level", category |-> "", arg |-> level])
    /\ UNCHANGED <<IOS_LOGGER, facadeVars, sinkVars, shardLock, pc, op, config,
                   log_level, record, returned, calls, logger,
                   max_level_applied, init_configs>>

Build_with_category_level_filter(category, level) ==
    /\ Len(history) < MaxBuilderCalls
    /\ building' = with_category_level_filter(building, category, level)
    /\ history' = Append(history,
                    [call |-> "with_category_level_filter",
                     category |-> category, arg |-> level])
    /\ UNCHANGED <<IOS_LOGGER, facadeVars, sinkVars, shardLock, pc, op, config,
                   log_level, record, returned, calls, logger,
                   max_level_applied, init_configs>>

(***************************************************************************)
(* Initial state: nothing initialised.  The facade starts with no logger   *)
(* registered and its maximum level at LevelFilter::Off.                   *)
(***************************************************************************)
Init ==
    /\ IOS_LOGGER = NoLogger
    /\ LOGGER = "none"
    /\ MAX_LOG_LEVEL_FILTER = "Off"
    /\ shardLock = [sh \in Shards |-> NoThread]
    /\ oslog_new = [c \in Categories |-> 0]
    /\ emitted = <<>>
    /\ otherSink = 0
    /\ pc = [t \in Threads |-> "idle"]
    /\ op = [t \in Threads |-> "idle"]
    /\ config = [t \in Threads |-> Config_default(<<t, 0>>)]
    /\ log_level = [t \in Threads |-> None]
    /\ record = [t \in Threads |-> NoRecord]
    /\ returned = [t \in Threads |-> NoReturn]
    /\ calls = [t \in Threads |-> 0]
    /\ logger = [t \in Threads |-> <<0, 0>>]
    /\ max_level_applied = FALSE
    /\ init_configs = <<>>
    /\ building = Config_default(BuilderOrigin)
    /\ history = <<>>

Next ==
    \/ \E t \in Threads, k \in ConfigIds : init_once(t, k)
    \/ \E t \in Threads : set_logger(t)
    \/ \E t \in Threads : set_max_level(t)
    \/ \E t \in Threads : debug(t)
    \/ \E t \in Threads, c \in Categories, s \in Levels : Enabled(t, c, s)
    \/ \E t \in Threads, c \in Categories, s \in Levels : Log(t, c, s)
    \/ \E t \in Threads : log_enabled(t)
    \/ \E t \in Threads : log_entry(t)
    \/ \E t \in Threads : log_emit(t)
    \/ \E level \in LevelFilters : OtherSetLogger(level)

Spec == Init /\ [][Next]_vars

\* The builder alone: every sequence of at most MaxBuilderCalls calls.
NextConfig ==
    \/ \E subsystem \in BuilderSubsystems : Build_with_subsystem(subsystem)
    \/ \E level \in BuilderLevels : Build_with_max_level(level)
    \/ \E category \in BuilderCategories, level \in BuilderLevels :
         Build_with_category_level_filter(category, level)

SpecConfig == Init /\ [][NextConfig]_vars

\* A call in progress on thread t takes its next step.  A step that needs a
\* shard's lock (DashMap::get at line 59, entry at line 70) waits until the
\* lock is free.
Running(t) ==
    \/ set_logger(t)
    \/ set_max_level(t)
    \/ debug(t)
    \/ log_enabled(t)
    \/ log_entry(t)
    \/ log_emit(t)

\* The calls of the threads with fewer inputs: the test's configuration and
\* the default one, a level above and one below every threshold those set,
\* and every category.
FairConfigIds == {1, 3}
FairLevels == {"Error", "Debug"}

NextFair ==
    \/ \E t \in Threads, k \in FairConfigIds : init_once(t, k)
    \/ \E t \in Threads : set_logger(t)
    \/ \E t \in Threads : set_max_level(t)
    \/ \E t \in Threads : debug(t)
    \/ \E t \in Threads, c \in Categories, s \in FairLevels : Enabled(t, c, s)
    \/ \E t \in Threads, c \in Categories, s \in FairLevels : Log(t, c, s)
    \/ \E t \in Threads : log_enabled(t)
    \/ \E t \in Threads : log_entry(t)
    \/ \E t \in Threads : log_emit(t)
    \/ OtherSetLogger("Debug")

\* Fair scheduling: a thread whose call can go on does go on, and a thread
\* that waits for a lock that is free again and again gets it.
SpecFair ==
    Init /\ [][NextFair]_vars /\ \A t \in Threads : SF_vars(Running(t))


(***************************************************************************)
(* Vocabulary of the properties.                                           *)
(***************************************************************************)
\* The specification's order of severities: Trace < Debug < Info < Warn <
\* Error, and Off above them all.
SeverityRank(level) ==
    CASE level = "Trace" -> 1
      [] level = "Debug" -> 2
      [] level = "Info"  -> 3
      [] level = "Warn"  -> 4
      [] level = "Error" -> 5
      [] level = "Off"   -> 6

AtLeastAsSevere(s, threshold) == SeverityRank(s) >= SeverityRank(threshold)

HasOverride(c) == Live /\ loggers[c] # NoEntry /\ loggers[c].level # None
NoOverride(c) == Live /\ ~HasOverride(c)

\* The init_once call that constructed the live OsLogger has returned.
ConstructorReturned ==
    /\ Live
    /\ LET t == IOS_LOGGER.config.origin[1]
           n == IOS_LOGGER.config.origin[2]
       IN calls[t] > n \/ (calls[t] = n /\ pc[t] = "idle")

\* The log calls on category c that thread t has taken past the entry lookup.
EmitsBy(t, c) ==
    {i \in 1..Len(emitted) :
        emitted[i].message[1] = t /\ emitted[i].oslog.category = c}

LogCallsBy(t, c) ==
    Cardinality(EmitsBy(t, c))
      + (IF pc[t] = "log_emit" /\ record[t].target = c THEN 1 ELSE 0)

\* A step of thread t.
StepOf(t) == pc'[t] # pc[t] \/ calls'[t] # calls[t]

(***************************************************************************)
(* C1.  For every category with a threshold override T in the live         *)
(* registry and every severity s, enabled(C, s) holds exactly when s is at *)
(* least as severe as T (s = T included), whatever the facade's maximum    *)
(* level is.                                                               *)
(***************************************************************************)
C1_OverrideDecides ==
    \A c \in Categories :
        HasOverride(c) =>
            \A s \in Levels :
                enabled(c, s) <=> AtLeastAsSevere(s, loggers[c].level)

\* An enabled() call at the boundary s = T returned true while the facade's
\* maximum level alone would have rejected s.
C1_Witness ==
    \E t \in Threads :
        /\ returned[t].op = "enabled"
        /\ HasOverride(returned[t].target)
        /\ returned[t].level = loggers[returned[t].target].level
        /\ returned[t].result = TRUE
        /\ ~macro_enabled(returned[t].level)

(***************************************************************************)
(* C2.  For every category without an override, when the configuration of  *)
(* the live logger sets no log_level, no maximum level was ever applied to *)
(* the facade and the logger is the facade's registered one, enabled(C, s) *)
(* is true for every severity s.                                           *)
(***************************************************************************)
C2_PermissiveDefault ==
    (/\ Live
     /\ IOS_LOGGER.config.log_level = None
     /\ ~max_level_applied
     /\ LOGGER = "oslog")
    => \A c \in Categories :
          NoOverride(c) => \A s \in Levels : enabled(c, s)

(***************************************************************************)
(* C3.  For every category without an override, if the configuration the   *)
(* live logger was built from sets log_level D, then once the constructing *)
(* init_once has returned enabled(C, s) holds exactly when s is at least   *)
(* as severe as D, also when the registration with the facade failed.      *)
(***************************************************************************)
C3_ConfiguredDefaultDecides ==
    (ConstructorReturned /\ IOS_LOGGER.config.log_level # None)
    => \A c \in Categories :
          NoOverride(c) =>
              \A s \in Levels :
                  enabled(c, s) <=>
                      AtLeastAsSevere(s, IOS_LOGGER.config.log_level)

(***************************************************************************)
(* C4.  When threads make their first enabled log call to a category that  *)
(* the configuration did not register, exactly one sink handle is created  *)
(* for the category, one registry entry appears, and every call emits      *)
(* through the handle of that entry.                                       *)
(***************************************************************************)
FirstCallsOnly(c) ==
    /\ Live
    /\ IOS_LOGGER.config.made[c] = 0
    /\ \A t \in Threads : LogCallsBy(t, c) <= 1

C4_OneHandlePerNewCategory ==
    \A c \in Categories :
        FirstCallsOnly(c) =>
            /\ oslog_new[c] <= 1
            /\ oslog_new[c] >= 1 => loggers[c] # NoEntry
            /\ \A i \in 1..Len(emitted) :
                   emitted[i].oslog.category = c =>
                       emitted[i].oslog = loggers[c].oslog

(***************************************************************************)
(* C5.  Under any interleaving of init_once calls with different           *)
(* configurations one OsLogger is constructed: once set, the holder keeps  *)
(* the same OsLogger; its subsystem, log_level and configured entries are  *)
(* those of one caller's configuration; and every caller passes that same  *)
(* OsLogger to log::set_logger.                                            *)
(***************************************************************************)
FromOneConfig ==
    \E k \in ConfigIds :
        LET cfg == BuildConfig(k, IOS_LOGGER.config.origin)
        IN /\ IOS_LOGGER.config.subsystem = cfg.subsystem
           /\ IOS_LOGGER.config.log_level = cfg.log_level
           /\ IOS_LOGGER.config.made = cfg.made
           /\ \A c \in Categories :
                  \/ loggers[c] = cfg.loggers[c]
                  \/ /\ cfg.loggers[c] = NoEntry
                     /\ loggers[c].level = None
                     /\ loggers[c].oslog.origin = LogOrigin

C5_State ==
    Live =>
        /\ FromOneConfig
        /\ \A t \in Threads :
               op[t] = "init_once" => logger[t] = IOS_LOGGER.config.origin

C5_Step ==
    Live =>
        /\ Live'
        /\ IOS_LOGGER'.config.origin = IOS_LOGGER.config.origin
        /\ IOS_LOGGER'.config.subsystem = IOS_LOGGER.config.subsystem
        /\ IOS_LOGGER'.config.log_level = IOS_LOGGER.config.log_level

C5_SingleOsLogger == [](C5_State) /\ [][C5_Step]_vars

\* Two callers with different configurations both hold the same OsLogger
\* and are about to register it.
C5_Witness ==
    /\ Live
    /\ pc[1] = "set_logger"
    /\ pc[2] = "set_logger"
    /\ config[1].subsystem # config[2].subsystem
    /\ logger[1] = logger[2]

(***************************************************************************)
(* C6.  If init_once has set the facade's maximum level, the value is the  *)
(* log_level of the configuration the live OsLogger was built from, never  *)
(* that of a configuration that did not construct it.                      *)
(***************************************************************************)
C6_AppliedLevelIsTheWinners ==
    (Live /\ max_level_applied)
    => MAX_LOG_LEVEL_FILTER = IOS_LOGGER.config.log_level

(***************************************************************************)
(* C7.  An init_once call made when the holder is already set leaves the   *)
(* threshold of every category already registered as it was, and no        *)
(* override of a later configuration appears in the live registry.         *)
(***************************************************************************)
C7_State ==
    \A c \in Categories :
        HasOverride(c) => loggers[c].oslog.origin = IOS_LOGGER.config.origin

C7_Step ==
    \A t \in Threads :
        (Live /\ StepOf(t) /\ (op[t] = "init_once" \/ op'[t] = "init_once"))
        => \A c \in Categories :
              loggers[c] # NoEntry =>
                  /\ loggers'[c] # NoEntry
                  /\ loggers'[c].level = loggers[c].level

C7_LaterInitKeepsThresholds == [](C7_State) /\ [][C7_Step]_vars

\* A later init_once with another configuration, one that overrides a
\* category differently, has returned, and the first call's override stands.
C7_Witness ==
    \E t \in Threads :
        /\ returned[t].op = "init_once"
        /\ pc[t] = "idle"
        /\ config[t].origin # IOS_LOGGER.config.origin
        /\ config[t].loggers["Settings"] # NoEntry
        /\ HasOverride("Settings")
        /\ config[t].loggers["Settings"].level # loggers["Settings"].level

(***************************************************************************)
(* C8.  enabled() is read-only: a call leaves the registry and the number  *)
(* of sink handles created unchanged; in particular an absent category     *)
(* stays absent.                                                           *)
(***************************************************************************)
EnabledStep(t) ==
    /\ pc[t] = "idle"
    /\ pc'[t] = "idle"
    /\ calls'[t] = calls[t] + 1
    /\ returned'[t].op = "enabled"

C8_Step ==
    \A t \in Threads :
        EnabledStep(t) => (IOS_LOGGER' = IOS_LOGGER /\ oslog_new' = oslog_new)

C8_EnabledIsReadOnly == [][C8_Step]_vars

\* enabled() was called for a category with no entry, and it has none after.
C8_Witness ==
    \E t \in Threads :
        /\ returned[t].op = "enabled"
        /\ Live
        /\ loggers[returned[t].target] = NoEntry
        /\ oslog_new[returned[t].target] = 0

(***************************************************************************)
(* C9.  A category whose override is Off rejects every severity, Error     *)
(* included, and nothing is ever emitted for it, whatever the facade's     *)
(* maximum level is.                                                       *)
(***************************************************************************)
C9_OffRejectsAll ==
    \A c \in Categories :
        (HasOverride(c) /\ loggers[c].level = "Off") =>
            /\ \A s \in Levels : ~enabled(c, s)
            /\ \A i \in 1..Len(emitted) : emitted[i].oslog.category # c
            /\ \A t \in Threads :
                   record[t].target = c => pc[t] \notin {"log_entry", "log_emit"}

\* log(C, Error) on a category set to Off returned without emitting, while
\* the facade's maximum level admits Error.
C9_Witness ==
    \E t \in Threads :
        /\ returned[t].op = "log"
        /\ returned[t].level = "Error"
        /\ returned[t].result = FALSE
        /\ HasOverride(returned[t].target)
        /\ loggers[returned[t].target].level = "Off"
        /\ macro_enabled("Error")

(***************************************************************************)
(* C10.  After any sequence of with_category_level_filter calls the        *)
(* configuration holds an entry for exactly the categories named, and the  *)
(* level of each is the level of the last call that named it.              *)
(***************************************************************************)
FilterCalls(c) ==
    {i \in 1..Len(history) :
        history[i].call = "with_category_level_filter" /\ history[i].category = c}

Last(indices) == CHOOSE i \in indices : \A j \in indices : j <= i

C10_LastWriteWins ==
    \A c \in Categories :
        IF FilterCalls(c) = {}
          THEN building.loggers[c] = NoEntry
          ELSE /\ building.loggers[c] # NoEntry
               /\ building.loggers[c].level = history[Last(FilterCalls(c))].arg

\* A category was named twice with different levels.
C10_Witness ==
    \E c \in Categories :
        \E i, j \in FilterCalls(c) :
            /\ i < j
            /\ j = Last(FilterCalls(c))
            /\ history[i].arg # history[j].arg
            /\ building.loggers[c].level = history[j].arg


(***************************************************************************)
(* C11.  The builder is order-independent apart from last-write-wins per   *)
(* category: replaying the same calls in another order that keeps the      *)
(* relative order of the calls of each kind and category gives the same    *)
(* configuration, and every sink handle in it was created with the         *)
(* configured subsystem, whether with_subsystem came before or after the   *)
(* category overrides.                                                     *)
(***************************************************************************)
ApplyCall(cfg, c) ==
    CASE c.call = "with_subsystem" -> with_subsystem(cfg, c.arg)
      [] c.call = "with_max_level" -> with_max_level(cfg, c.arg)
      [] c.call = "with_category_level_filter" ->
             with_category_level_filter(cfg, c.category, c.arg)

RECURSIVE Replay(_, _)
Replay(cfg, callSeq) ==
    IF callSeq = <<>>
      THEN cfg
      ELSE Replay(ApplyCall(cfg, Head(callSeq)), Tail(callSeq))

IsSubsystemCall(c) == c.call = "with_subsystem"
IsOtherCall(c) == c.call # "with_subsystem"

\* The same calls, the with_subsystem calls moved to the front.
SubsystemFirst(callSeq) ==
    SelectSeq(callSeq, IsSubsystemCall) \o SelectSeq(callSeq, IsOtherCall)

C11_OrderIndependent ==
    /\ Replay(Config_default(BuilderOrigin), SubsystemFirst(history)) = building
    /\ \A c \in Categories :
           building.loggers[c] # NoEntry =>
               building.loggers[c].oslog.subsystem = building.subsystem


(***************************************************************************)
(* C12.  End to end: once init_once has been called (one or more times)    *)
(* with the configuration of the tests and has returned, log(Settings,     *)
(* Info) is suppressed, log(Settings, Warn), log(Settings, Error) and      *)
(* log(Database, Warn) are emitted, and a Debug record of a category       *)
(* without override is emitted.                                            *)
(***************************************************************************)
\* Every init_once call so far passed configuration 1 and has returned, and
\* no other component registered a logger.
TestScenario ==
    /\ Len(init_configs) >= 1
    /\ \A i \in 1..Len(init_configs) : init_configs[i] = 1
    /\ \A t \in Threads : op[t] # "init_once"
    /\ LOGGER # "other"

TestCases ==
    {[target |-> "Settings",  level |-> "Info",  emit |-> FALSE],
     [target |-> "Settings",  level |-> "Warn",  emit |-> TRUE],
     [target |-> "Settings",  level |-> "Error", emit |-> TRUE],
     [target |-> "Database",  level |-> "Warn",  emit |-> TRUE],
     [target |-> ModulePath,  level |-> "Debug", emit |-> TRUE]}

IsCase(rec, case) == rec.target = case.target /\ rec.level = case.level

C12_State ==
    TestScenario =>
        /\ LOGGER = "oslog"
        /\ \A case \in TestCases : enabled(case.target, case.level) = case.emit

C12_Step ==
    \A t \in Threads : \A case \in TestCases :
        (TestScenario /\ op[t] = "log" /\ StepOf(t) /\ IsCase(record[t], case))
        => /\ pc[t] = "log_enabled" =>
                  (pc'[t] = "log_entry") = case.emit
           /\ pc[t] = "log_enabled" /\ ~case.emit =>
                  (emitted' = emitted /\ returned'[t].result = FALSE)
           /\ pc[t] = "log_emit" =>
                  /\ Len(emitted') = Len(emitted) + 1
                  /\ emitted'[Len(emitted')].oslog.category = case.target
                  /\ emitted'[Len(emitted')].level = case.level
                  /\ returned'[t].result = TRUE

C12_TestOutcomes == [](C12_State) /\ [][C12_Step]_vars

\* init_once was called three times with the configuration of the tests,
\* and log(Database, Warn) has been emitted.
C12_Witness ==
    /\ TestScenario
    /\ Len(init_configs) = 3
    /\ \E t \in Threads :
           /\ pc[t] = "idle"
           /\ returned[t] = [op |-> "log", target |-> "Database",
                             level |-> "Warn", result |-> TRUE]
           /\ \E i \in 1..Len(emitted) :
                  /\ emitted[i].message = <<t, calls[t]>>
                  /\ emitted[i].oslog = loggers["Database"].oslog
                  /\ emitted[i].level = "Warn"


(***************************************************************************)
(* C13.  log(C, s, m) called when enabled(C, s) is false is a no-op: the   *)
(* call returns without creating or changing a registry entry, without     *)
(* creating a sink handle and without emitting.                            *)
(***************************************************************************)
C13_Step ==
    \A t \in Threads :
        (StepOf(t) /\ pc[t] = "log_enabled"
           /\ ~enabled(record[t].target, record[t].level))
        => /\ pc'[t] = "idle"
           /\ returned'[t].result = FALSE
           /\ IOS_LOGGER' = IOS_LOGGER
           /\ oslog_new' = oslog_new
           /\ emitted' = emitted
           /\ otherSink' = otherSink
           /\ shardLock' = shardLock

C13_DisabledLogIsNoOp == [][C13_Step]_vars

\* A log call on a category with no entry was refused, and the category has
\* no entry still.
C13_Witness ==
    \E t \in Threads :
        /\ returned[t].op = "log"
        /\ returned[t].result = FALSE
        /\ pc[t] = "idle"
        /\ Live
        /\ loggers[returned[t].target] = NoEntry
        /\ oslog_new[returned[t].target] = 0
        /\ emitted = <<>>


(***************************************************************************)
(* C14.  When init_once runs while another logger is the facade's          *)
(* registered one, the registered logger and the facade's maximum level    *)
(* stay as they are and init_once returns normally; its only further       *)
(* effect is the one Debug record it hands to the facade, which delivers   *)
(* it to the registered logger if its maximum level admits Debug.          *)
(***************************************************************************)
C14_Step ==
    \A t \in Threads :
        (StepOf(t) /\ op[t] = "init_once" /\ LOGGER = "other")
        => /\ LOGGER' = "other"
           /\ MAX_LOG_LEVEL_FILTER' = MAX_LOG_LEVEL_FILTER
           /\ max_level_applied' = max_level_applied
           /\ IOS_LOGGER' = IOS_LOGGER
           /\ oslog_new' = oslog_new
           /\ emitted' = emitted
           /\ pc[t] = "set_logger" => (pc'[t] = "debug" /\ otherSink' = otherSink)
           /\ pc[t] = "debug" =>
                  /\ pc'[t] = "idle"
                  /\ returned'[t].op = "init_once"
                  /\ returned'[t].result = FALSE
                  /\ otherSink' =
                         otherSink + (IF macro_enabled("Debug") THEN 1 ELSE 0)
           /\ pc[t] \in {"set_logger", "debug"}

C14_OtherSinkStays == [][C14_Step]_vars

\* init_once returned after a failed registration against another logger,
\* which received the Debug record; the facade's maximum level is not the
\* configured one.
C14_Witness ==
    \E t \in Threads :
        /\ LOGGER = "other"
        /\ pc[t] = "idle"
        /\ returned[t].op = "init_once"
        /\ returned[t].result = FALSE
        /\ otherSink = 1
        /\ log_level[t] # None
        /\ MAX_LOG_LEVEL_FILTER # log_level[t]


(***************************************************************************)
(* C15.  A sink handle is created only together with its registry entry,   *)
(* hence at most once per category: over the with_category_level_filter    *)
(* calls that built the live configuration and the log calls since, no     *)
(* category has had more than one handle created, and a call that targets  *)
(* a category already present creates none.                                *)
(***************************************************************************)
HandlesCreated(c) == IOS_LOGGER.config.made[c] + oslog_new[c]

C15_State ==
    Live => \A c \in Categories : HandlesCreated(c) <= 1

C15_Step ==
    \A c \in Categories :
        (Live /\ loggers[c] # NoEntry) => oslog_new'[c] = oslog_new[c]

C15_HandleOncePerCategory == [](C15_State) /\ [][C15_Step]_vars


(***************************************************************************)
(* C16.  A repeated init_once call, made when the holder is set and this   *)
(* OsLogger is the facade's registered logger, leaves the set of           *)
(* categories in the registry as it was, the record that init_once itself  *)
(* logs on the failed registration included.                               *)
(***************************************************************************)
Present == {c \in Categories : Live /\ loggers[c] # NoEntry}

\* Thread t is in an init_once call that follows a call of its own in which
\* it registered the OsLogger.
InRepeatedInit(t) ==
    /\ op[t] = "init_once"
    /\ returned[t].op = "init_once"
    /\ returned[t].result = TRUE

C16_Step ==
    \A t \in Threads :
        (StepOf(t) /\ InRepeatedInit(t)) => Present' = Present

C16_RepeatedInitKeepsRegistry == [][C16_Step]_vars


(***************************************************************************)
(* C17.  A log call that finds enabled(C, s) true emits exactly once,      *)
(* through the sink handle of C's registry entry (the entry that was       *)
(* there, or the one the call inserted), with the record's own severity    *)
(* and message.                                                            *)
(***************************************************************************)
EmitsOf(message) == {i \in 1..Len(emitted) : emitted[i].message = message}

\* The message of the call that thread t is in, or of its last call.
CallMessage(t) == <<t, calls[t]>>

C17_State ==
    \A t \in Threads :
        /\ Cardinality(EmitsOf(CallMessage(t))) <= 1
        /\ (pc[t] = "idle" /\ returned[t].op \in {"log", "init_once"}
              /\ returned[t].target # "") =>
               IF returned[t].result
                 THEN \E i \in 1..Len(emitted) :
                          /\ EmitsOf(CallMessage(t)) = {i}
                          /\ emitted[i].oslog = loggers[returned[t].target].oslog
                          /\ emitted[i].level = returned[t].level
                 ELSE EmitsOf(CallMessage(t)) = {}
        /\ pc[t] \in {"log_enabled", "log_entry", "log_emit"} =>
               EmitsOf(CallMessage(t)) = {}

C17_Step ==
    \A t \in Threads :
        StepOf(t) =>
            /\ (pc[t] = "log_enabled"
                  /\ enabled(record[t].target, record[t].level))
               => (pc'[t] = "log_entry" /\ record'[t] = record[t])
            /\ pc[t] = "log_entry" =>
                  /\ pc'[t] = "log_emit"
                  /\ record'[t] = record[t]
                  /\ loggers'[record[t].target] # NoEntry
                  /\ loggers[record[t].target] # NoEntry =>
                         loggers'[record[t].target] = loggers[record[t].target]
            /\ pc[t] = "log_emit" =>
                  /\ pc'[t] = "idle"
                  /\ returned'[t].result = TRUE
                  /\ emitted' = Append(emitted,
                                  [oslog |-> loggers[record[t].target].oslog,
                                   level |-> record[t].level,
                                   message |-> record[t].args])

C17_EnabledLogEmitsOnce == [](C17_State) /\ [][C17_Step]_vars

\* Two log calls to one category have returned: the first inserted the
\* entry, the second found it, and each emitted once through its handle.
C17_Witness ==
    \E c \in Categories :
        /\ oslog_new[c] = 2
        /\ Len(emitted) = 2
        /\ emitted[1].oslog = loggers[c].oslog
        /\ emitted[2].oslog = loggers[c].oslog
        /\ emitted[1].message # emitted[2].message
        /\ loggers[c].oslog.origin = LogOrigin
        /\ \A t \in Threads : pc[t] = "idle"


(***************************************************************************)
(* C18.  In the live registry the set of categories only grows and the     *)
(* sink handle of a category never changes once its entry is there, so     *)
(* every emission for a category went through the handle the entry holds.  *)
(***************************************************************************)
C18_State ==
    \A i \in 1..Len(emitted) :
        /\ Live
        /\ loggers[emitted[i].oslog.category] # NoEntry
        /\ emitted[i].oslog = loggers[emitted[i].oslog.category].oslog

C18_Step ==
    \A c \in Categories :
        (Live /\ loggers[c] # NoEntry) =>
            /\ Live'
            /\ loggers'[c] # NoEntry
            /\ loggers'[c].oslog = loggers[c].oslog

C18_EntriesAndHandlesStay == [](C18_State) /\ [][C18_Step]_vars

\* Both threads have emitted for a category that a log call registered;
\* a second handle was created for it and the entry kept the first.
C18_Witness ==
    \E c \in Categories :
        /\ Live
        /\ loggers[c] # NoEntry
        /\ loggers[c].oslog = OsLog_new(IOS_LOGGER.config.subsystem, c, LogOrigin, 1)
        /\ oslog_new[c] >= 2
        /\ \A t \in Threads : EmitsBy(t, c) # {}


(***************************************************************************)
(* C20.  Once the OsLogger is live the threshold of every category is      *)
(* constant: a configured override keeps its value, an entry that log      *)
(* creates has no threshold and keeps none, and while the facade's maximum *)
(* level stays the same enabled(C, s) gives the same answer before and     *)
(* after every step, log calls to C included.                              *)
(***************************************************************************)
Threshold(c) == IF loggers[c] = NoEntry THEN None ELSE loggers[c].level

C20_State ==
    \A c \in Categories :
        (Live /\ loggers[c] # NoEntry /\ loggers[c].oslog.origin = LogOrigin)
        => loggers[c].level = None

C20_Step ==
    Live =>
        /\ \A c \in Categories : Threshold(c)' = Threshold(c)
        /\ MAX_LOG_LEVEL_FILTER' = MAX_LOG_LEVEL_FILTER =>
               \A c \in Categories : \A s \in Levels :
                   enabled(c, s)' = enabled(c, s)

C20_ThresholdsConstant == [](C20_State) /\ [][C20_Step]_vars

\* A log call to a category with a configured override has emitted, a log
\* call has created an entry for another category, and enabled() answers
\* for the first as its override says while the facade's level says
\* otherwise.
C20_Witness ==
    \E c, d \in Categories :
        /\ HasOverride(c)
        /\ \E i \in 1..Len(emitted) : emitted[i].oslog.category = c
        /\ loggers[d] # NoEntry
        /\ loggers[d].oslog.origin = LogOrigin
        /\ loggers[d].level = None
        /\ \E s \in Levels : enabled(c, s) # macro_enabled(s)


(***************************************************************************)
(* C19.  Under fair scheduling every call in progress (init_once, log, and *)
(* the enabled check that log makes) returns, whatever the other threads   *)
(* do on the same or other categories, and a shard's lock that log holds   *)
(* from the entry lookup to the emission is released.                      *)
(***************************************************************************)
C19_EveryCallReturns ==
    /\ \A t \in Threads : (pc[t] # "idle") ~> (pc[t] = "idle")
    /\ \A sh \in Shards : (shardLock[sh] # NoThread) ~> (shardLock[sh] = NoThread)

\* One thread holds a shard's lock in log, between the entry lookup and the
\* emission, while another thread's log call waits for the same lock and a
\* first call has already returned.
C19_Witness ==
    \E t, u \in Threads :
        /\ t # u
        /\ pc[t] = "log_emit"
        /\ pc[u] \in {"log_enabled", "log_entry"}
        /\ shardLock[ShardOf(record[u].target)] = t
        /\ returned[u] # NoReturn

====
